---- MODULE Spec2Model ----
(***************************************************************************)
(* Model of pulp/client/search.py: the filter-term parser, the sort-spec   *)
(* validator and parser, and the option sets of the search command and of  *)
(* its three unit-scoped variants.                                         *)
(*                                                                         *)
(* A Python string is a sequence of one-character strings, so that         *)
(* str.split, str.lower and ''.join are computed character by character.   *)
(***************************************************************************)
EXTENDS Integers, Sequences, FiniteSets, TLC

VARIABLES
    kv_args,        \* _parse_key_value: the list of raw strings handed in
    kv_status,      \* "none" before the call, then "ok" or "ValueError"
    kv_ret,         \* the list returned (<<>> when nothing was returned)
    sort_args,      \* _validate_sort / _parse_sort: the list of raw tokens
    valid_status,   \* _validate_sort: "none", then "ok" or "ValueError"
    parse_status,   \* _parse_sort: "none", then "ok" or "CommandUsage"
    sort_ret,       \* the list _parse_sort returned (<<>> when nothing was)
    cls,            \* the command class constructed ("none" before)
    call,           \* the constructor call: positional and keyword arguments
    ctor_status,    \* "none", then "ok" or "TypeError"
    options,        \* self.options of the command
    option_groups,  \* self.option_groups of the command
    user_input,     \* the option values of one invocation of the command
    exec_status     \* "none", then "ok", "unknown_option" or "missing_required"

vars == <<kv_args, kv_status, kv_ret, sort_args, valid_status, parse_status,
          sort_ret, cls, call, ctor_status, options, option_groups,
          user_input, exec_status>>

filter_vars == <<kv_args, kv_status, kv_ret>>
sort_vars == <<sort_args, valid_status, parse_status, sort_ret>>
command_vars == <<cls, call, ctor_status, options, option_groups,
                  user_input, exec_status>>

(***************************************************************************)
(* Bounds.                                                                 *)
(***************************************************************************)
\* the number of '='-free components on one command line of filter terms
MaxKvComponents == 5
\* the number of ','-free components on one command line of sort tokens
MaxSortComponents == 4
\* the timestamps an invocation may give for --after and --before
MaxInstant == 2

(***************************************************************************)
(* Python strings and lists.                                               *)
(***************************************************************************)
EQ == "="
COMMA == ","

UpperLetters ==
    <<"A","B","C","D","E","F","G","H","I","J","K","L","M",
      "N","O","P","Q","R","S","T","U","V","W","X","Y","Z">>
LowerLetters ==
    <<"a","b","c","d","e","f","g","h","i","j","k","l","m",
      "n","o","p","q","r","s","t","u","v","w","x","y","z">>

\* the upper-case letters, each with its lower-case letter
LowerOf ==
    [c \in {UpperLetters[i] : i \in 1..Len(UpperLetters)} |->
        LowerLetters[CHOOSE i \in 1..Len(UpperLetters) : UpperLetters[i] = c]]

\* str.lower() on one character
LowerChar(c) == IF c \in DOMAIN LowerOf THEN LowerOf[c] ELSE c

\* str.lower()
lower(s) == [i \in 1..Len(s) |-> LowerChar(s[i])]

\* str.find(c) counted from 1; 0 when c does not occur
find(s, c) ==
    IF \E i \in 1..Len(s) : s[i] = c
    THEN CHOOSE i \in 1..Len(s) : s[i] = c /\ \A j \in 1..(i-1) : s[j] # c
    ELSE 0

\* str.split(sep, maxsplit) for a one-character sep; maxsplit = -1 is no limit
RECURSIVE split(_, _, _)
split(s, sep, maxsplit) ==
    LET i == find(s, sep)
    IN  IF maxsplit = 0 \/ i = 0
        THEN <<s>>
        ELSE <<SubSeq(s, 1, i-1)>> \o split(SubSeq(s, i+1, Len(s)), sep, maxsplit-1)

\* the list slice l[lo:hi] (0-based, hi exclusive, clamped as Python clamps)
slice(l, lo, hi) ==
    LET top == IF hi < Len(l) THEN hi ELSE Len(l)
    IN  IF lo >= top THEN <<>> ELSE SubSeq(l, lo+1, top)

\* ''.join(l)
RECURSIVE join(_)
join(l) == IF l = <<>> THEN <<>> ELSE Head(l) \o join(Tail(l))

(***************************************************************************)
(* A command line: components that hold no separator, each followed either *)
(* by the separator (the same argument goes on) or by the end of the       *)
(* argument.  Every list of strings is built this way exactly once.        *)
(***************************************************************************)
RECURSIVE CommandLine(_, _, _)
CommandLine(comps, brk, sep) ==
    IF Len(comps) = 0 THEN <<>>
    ELSE IF Len(comps) = 1 THEN <<comps[1]>>
    ELSE LET rest == CommandLine(Tail(comps), Tail(brk), sep)
         IN  IF brk[1]
             THEN <<comps[1]>> \o rest
             ELSE <<comps[1] \o <<sep>> \o rest[1]>> \o Tail(rest)

CommandLines(pool, sep, max) ==
    UNION { { CommandLine(c, b, sep) :
                c \in [1..k -> pool], b \in [1..(k-1) -> BOOLEAN] } : k \in 0..max }

(***************************************************************************)
(* Filter-term parser.                                                     *)
(***************************************************************************)
KvPool == { <<>>, <<"a">>, <<"b", "c">> }

KvInputs == CommandLines(KvPool, EQ, MaxKvComponents)

\* arg.rsplit('=', 1): the split at the last '=' in place of the first
key_value_components_last_eq(arg) ==
    IF find(arg, EQ) = 0
    THEN <<arg>>
    ELSE LET i == CHOOSE k \in 1..Len(arg) :
                      arg[k] = EQ /\ \A j \in (k+1)..Len(arg) : arg[j] # EQ
         IN  <<SubSeq(arg, 1, i-1), SubSeq(arg, i+1, Len(arg))>>

\* arg.partition('=') in place of split: always a field and a value
key_value_components_partition(arg) ==
    IF find(arg, EQ) = 0 THEN <<arg, <<>>>> ELSE split(arg, EQ, 1)

\* components = arg.split('=', 1)
key_value_components(arg) == split(arg, EQ, 1)

\* the body of the for loop of _parse_key_value, from the i-th argument on
RECURSIVE parse_key_value_loop(_, _, _)
parse_key_value_loop(args, i, ret) ==
    IF i > Len(args)
    THEN [status |-> "ok", ret |-> ret]
    ELSE LET components == key_value_components(args[i])
         IN  IF Len(components) # 2
             THEN [status |-> "ValueError", ret |-> <<>>]
             ELSE parse_key_value_loop(args, i+1, Append(ret, components))

parse_key_value(args) == parse_key_value_loop(args, 1, <<>>)

InitCommandIdle ==
    /\ cls = "none"
    /\ call = [args |-> <<>>, kwargs |-> <<>>]
    /\ ctor_status = "none"
    /\ options = <<>>
    /\ option_groups = <<>>
    /\ user_input = [n \in {} |-> 0]
    /\ exec_status = "none"

InitSortIdle ==
    /\ sort_args = <<>>
    /\ valid_status = "none"
    /\ parse_status = "none"
    /\ sort_ret = <<>>

InitFilterIdle ==
    /\ kv_args = <<>>
    /\ kv_status = "none"
    /\ kv_ret = <<>>

InitFilter ==
    /\ kv_args \in KvInputs
    /\ kv_status = "none"
    /\ kv_ret = <<>>
    /\ InitSortIdle
    /\ InitCommandIdle

\* the option framework hands the collected values of one filter flag to
\* the flag's parse_func
ParseKeyValue ==
    /\ kv_status = "none"
    /\ LET r == parse_key_value(kv_args)
       IN  /\ kv_status' = r.status
           /\ kv_ret' = r.ret
    /\ UNCHANGED <<kv_args, sort_vars, command_vars>>

NextFilter == ParseKeyValue

SpecFilter == InitFilter /\ [][NextFilter]_vars

(***************************************************************************)
(* Sort-spec validator and parser.                                         *)
(***************************************************************************)
ascending == <<"a","s","c","e","n","d","i","n","g">>
descending == <<"d","e","s","c","e","n","d","i","n","g">>

\* the components of a sort token: nothing, a field name that is no direction,
\* and the two directions, one of them capitalised
SortPool ==
    { <<>>,
      <<"N","a">>,
      ascending,
      <<"D","e","s","c","e","n","d","i","n","g">> }

SortInputs == CommandLines(SortPool, COMMA, MaxSortComponents)

\* _explode_sort_arg_pieces joining pieces[1:] in place of pieces[1:2]
explode_sort_arg_pieces_all_pieces(sort_arg) ==
    LET pieces == split(lower(sort_arg), COMMA, -1)
        field_name == pieces[1]
        joined == join(slice(pieces, 1, Len(pieces)))
        direction == IF joined # <<>> THEN joined ELSE ascending
    IN  <<field_name, direction>>

\* _explode_sort_arg_pieces without the "or 'ascending'" for an empty piece
explode_sort_arg_pieces_empty_kept(sort_arg) ==
    LET pieces == split(lower(sort_arg), COMMA, -1)
        field_name == pieces[1]
        direction == IF Len(pieces) > 1 THEN pieces[2] ELSE ascending
    IN  <<field_name, direction>>

explode_sort_arg_pieces(sort_arg) ==
    LET pieces == split(lower(sort_arg), COMMA, -1)
        field_name == pieces[1]
        joined == join(slice(pieces, 1, 2))
        direction == IF joined # <<>> THEN joined ELSE ascending
    IN  <<field_name, direction>>

\* the direction test of _validate_sort accepting any direction
legal_direction_any(direction) == TRUE

\* the direction test of _parse_sort and of _validate_sort
legal_direction(direction) == direction \in {ascending, descending}

\* direction not in ('ascending', 'descending'), negated, in _validate_sort
validate_direction(direction) == direction \in {ascending, descending}

\* the field test of _validate_sort left out
validate_field_any(field_name) == TRUE

\* len(field_name) == 0, negated
validate_field(field_name) == Len(field_name) # 0

\* the for loop of _validate_sort, from the i-th argument on
RECURSIVE validate_sort_loop(_, _)
validate_sort_loop(args, i) ==
    IF i > Len(args)
    THEN "ok"
    ELSE LET e == explode_sort_arg_pieces(args[i])
             field_name == e[1]
             direction == e[2]
         IN  IF ~validate_field(field_name) THEN "ValueError"
             ELSE IF ~validate_direction(direction) THEN "ValueError"
             ELSE validate_sort_loop(args, i+1)

validate_sort(args) == validate_sort_loop(args, 1)

\* ret.append((field_name, direction)) putting the new pair first
parse_sort_append_front(ret, pair) == <<pair>> \o ret

\* ret.append((field_name, direction))
parse_sort_append(ret, pair) == Append(ret, pair)

\* the for loop of _parse_sort, from the i-th argument on
RECURSIVE parse_sort_loop(_, _, _)
parse_sort_loop(args, i, ret) ==
    IF i > Len(args)
    THEN [status |-> "ok", ret |-> ret]
    ELSE LET e == explode_sort_arg_pieces(args[i])
             field_name == e[1]
             direction == e[2]
         IN  IF ~legal_direction(direction)
             THEN [status |-> "CommandUsage", ret |-> <<>>]
             ELSE parse_sort_loop(args, i+1,
                                  parse_sort_append(ret, <<field_name, direction>>))

parse_sort(args) == parse_sort_loop(args, 1, <<>>)

InitSort ==
    /\ sort_args \in SortInputs
    /\ valid_status = "none"
    /\ parse_status = "none"
    /\ sort_ret = <<>>
    /\ InitFilterIdle
    /\ InitCommandIdle

\* the option framework runs the validate_func of --sort on the collected tokens
ValidateSort ==
    /\ valid_status = "none"
    /\ valid_status' = validate_sort(sort_args)
    /\ UNCHANGED <<sort_args, parse_status, sort_ret, filter_vars, command_vars>>

\* the parse_func of --sort is run on the collected tokens; nothing in this
\* file ties it to the outcome of the validate_func
ParseSort ==
    /\ parse_status = "none"
    /\ LET r == parse_sort(sort_args)
       IN  /\ parse_status' = r.status
           /\ sort_ret' = r.ret
    /\ UNCHANGED <<sort_args, valid_status, filter_vars, command_vars>>

NextSort == ValidateSort \/ ParseSort

SpecSort == InitSort /\ [][NextSort]_vars

(***************************************************************************)
(* The commands and their option sets.                                     *)
(***************************************************************************)
\* PulpCliOption(name, description, required=..., allow_multiple=...,
\* validate_func=..., parse_func=...); a function is named by its name
PulpCliOption(name, required, allow_multiple, validate_func, parse_func) ==
    [name |-> name, required |-> required, allow_multiple |-> allow_multiple,
     validate_func |-> validate_func, parse_func |-> parse_func]

\* self.create_option(name, description, aliases, required=...,
\* allow_multiple=..., parse_func=...): the option is made and added
create_option(self, name, required, allow_multiple, parse_func) ==
    [self EXCEPT !.options =
        Append(@, PulpCliOption(name, required, allow_multiple, "None", parse_func))]

\* the command before any option is added
new_command == [options |-> <<>>, option_groups |-> <<>>]

FilterOperatorNames ==
    <<"--str-eq", "--int-eq", "--match", "--in", "--not",
      "--gt", "--gte", "--lt", "--lte">>

add_filtering(self) ==
    LET filter_group ==
            [i \in 1..Len(FilterOperatorNames) |->
                PulpCliOption(FilterOperatorNames[i], FALSE, TRUE,
                              "None", "_parse_key_value")]
    IN  [self EXCEPT
            !.options = Append(@, PulpCliOption("--filters", FALSE, FALSE,
                                                "None", "json.loads")),
            !.option_groups = Append(@, filter_group)]

add_full_criteria_options(self) ==
    [self EXCEPT !.options = @ \o
        << PulpCliOption("--limit", FALSE, FALSE, "positive_int_validator", "int"),
           PulpCliOption("--skip", FALSE, FALSE, "non_negative_int_validator", "int"),
           PulpCliOption("--sort", FALSE, TRUE, "_validate_sort", "_parse_sort"),
           PulpCliOption("--fields", FALSE, FALSE, "str", "split_commas") >>]

\* the positional arguments after method, and the keyword arguments, that a
\* caller gives for filtering and criteria
PositionalArgs ==
    {<<>>} \cup {<<f>> : f \in BOOLEAN} \cup {<<f, c>> : f, c \in BOOLEAN}
KeywordArgs == UNION { [S -> BOOLEAN] : S \in SUBSET {"filtering", "criteria"} }

\* kwargs[key] = value
set_kwarg(kwargs, key, value) ==
    [k \in DOMAIN kwargs \cup {key} |-> IF k = key THEN value ELSE kwargs[k]]

\* Python binding args and kwargs to (self, method, filtering=True,
\* criteria=True, *args, **kwargs): a parameter given twice is a TypeError
bind_search_command(args, kwargs) ==
    IF \/ Len(args) >= 1 /\ "filtering" \in DOMAIN kwargs
       \/ Len(args) >= 2 /\ "criteria" \in DOMAIN kwargs
    THEN [status |-> "TypeError", filtering |-> FALSE, criteria |-> FALSE]
    ELSE [status |-> "ok",
          filtering |-> IF Len(args) >= 1 THEN args[1]
                        ELSE IF "filtering" \in DOMAIN kwargs THEN kwargs["filtering"]
                        ELSE TRUE,
          criteria |-> IF Len(args) >= 2 THEN args[2]
                       ELSE IF "criteria" \in DOMAIN kwargs THEN kwargs["criteria"]
                       ELSE TRUE]

raised(status) == [status |-> status, self |-> new_command]

SearchCommand_init(args, kwargs) ==
    LET b == bind_search_command(args, kwargs)
        s1 == IF b.filtering THEN add_filtering(new_command) ELSE new_command
        s2 == IF b.criteria THEN add_full_criteria_options(s1) ELSE s1
    IN  IF b.status # "ok" THEN raised(b.status)
        ELSE [status |-> "ok", self |-> s2]

\* PulpCliOption('--repo-id', ..., required=True)
repo_id_option ==
    PulpCliOption("--repo-id", TRUE, FALSE, "None", "None")

\* the options --after and --before added as required options
add_time_bounds_required(self) ==
    create_option(create_option(self, "--after", TRUE, FALSE, "parsers.iso8601"),
                  "--before", TRUE, FALSE, "parsers.iso8601")

\* the two create_option calls of UnitSearchCommand.__init__
add_time_bounds(self) ==
    create_option(create_option(self, "--after", FALSE, FALSE, "parsers.iso8601"),
                  "--before", FALSE, FALSE, "parsers.iso8601")

UnitSearchCommand_init(args, kwargs) ==
    LET r == SearchCommand_init(args, kwargs)
        s1 == [r.self EXCEPT !.options = Append(@, repo_id_option)]
    IN  IF r.status # "ok" THEN r
        ELSE [status |-> "ok", self |-> add_time_bounds(s1)]

\* kwargs.setdefault('criteria', False): the caller's value is kept
copy_kwargs_setdefault(kwargs) ==
    IF "criteria" \in DOMAIN kwargs THEN kwargs ELSE set_kwarg(kwargs, "criteria", FALSE)

\* kwargs['criteria'] = False
copy_kwargs(kwargs) == set_kwarg(kwargs, "criteria", FALSE)

\* [opt for opt in self.options if opt.name != '--repo-id']
copy_kept_options(opts) == SelectSeq(opts, LAMBDA opt : opt.name # "--repo-id")

UnitCopyCommand_init(args, kwargs) ==
    LET r == UnitSearchCommand_init(args, copy_kwargs(kwargs))
        s1 == [r.self EXCEPT !.options = copy_kept_options(@)]
        s2 == create_option(s1, "--from-repo-id", TRUE, FALSE, "None")
        s3 == create_option(s2, "--to-repo-id", TRUE, FALSE, "None")
    IN  IF r.status # "ok" THEN r
        ELSE [status |-> "ok", self |-> s3]

\* OPTIONS_TO_REMOVE without '--fields'
OPTIONS_TO_REMOVE_sort_only == {"--sort"}

OPTIONS_TO_REMOVE == {"--sort", "--fields"}

\* kwargs['filtering'] = False
search_all_kwargs(kwargs) == set_kwarg(kwargs, "filtering", FALSE)

UnitSearchAllCommand_init(args, kwargs) ==
    LET r == UnitSearchCommand_init(args, search_all_kwargs(kwargs))
        s1 == [r.self EXCEPT !.options =
                  SelectSeq(@, LAMBDA opt : opt.name \notin OPTIONS_TO_REMOVE)]
    IN  IF r.status # "ok" THEN r
        ELSE [status |-> "ok", self |-> s1]

\* the options an invocation may give a value for: 0 is "not given"; a repo
\* id is given (1) or not, a time bound is one of the instants 1..MaxInstant
InvocationNames ==
    {"--repo-id", "--after", "--before", "--from-repo-id", "--to-repo-id"}
UserInputs ==
    { f \in [InvocationNames -> 0..MaxInstant] :
        \A n \in InvocationNames \ {"--after", "--before"} : f[n] <= 1 }

\* every option of the command, those of its option groups included
all_options(self) ==
    {self.options[i] : i \in 1..Len(self.options)} \cup
    UNION { {self.option_groups[g][i] : i \in 1..Len(self.option_groups[g])} :
                g \in 1..Len(self.option_groups) }

option_names(self) == {o.name : o \in all_options(self)}

\* the option framework running the command on the values given: an option the
\* command does not have is refused, a required option without a value is a
\* usage error, and nothing else is checked before the method is called
execute(self, input) ==
    IF \E n \in InvocationNames : input[n] # 0 /\ n \notin option_names(self)
    THEN "unknown_option"
    ELSE IF \E o \in all_options(self) :
                o.required /\ (o.name \notin InvocationNames \/ input[o.name] = 0)
    THEN "missing_required"
    ELSE "ok"

InitCommand ==
    /\ InitCommandIdle
    /\ InitFilterIdle
    /\ InitSortIdle

ConstructSearchCommand ==
    /\ ctor_status = "none"
    /\ \E a \in PositionalArgs, k \in KeywordArgs :
        LET r == SearchCommand_init(a, k)
        IN  /\ cls' = "SearchCommand"
            /\ call' = [args |-> a, kwargs |-> k]
            /\ ctor_status' = r.status
            /\ options' = r.self.options
            /\ option_groups' = r.self.option_groups
    /\ UNCHANGED <<user_input, exec_status, filter_vars, sort_vars>>

ConstructUnitSearchCommand ==
    /\ ctor_status = "none"
    /\ \E a \in PositionalArgs, k \in KeywordArgs :
        LET r == UnitSearchCommand_init(a, k)
        IN  /\ cls' = "UnitSearchCommand"
            /\ call' = [args |-> a, kwargs |-> k]
            /\ ctor_status' = r.status
            /\ options' = r.self.options
            /\ option_groups' = r.self.option_groups
    /\ UNCHANGED <<user_input, exec_status, filter_vars, sort_vars>>

ConstructUnitCopyCommand ==
    /\ ctor_status = "none"
    /\ \E a \in PositionalArgs, k \in KeywordArgs :
        LET r == UnitCopyCommand_init(a, k)
        IN  /\ cls' = "UnitCopyCommand"
            /\ call' = [args |-> a, kwargs |-> k]
            /\ ctor_status' = r.status
            /\ options' = r.self.options
            /\ option_groups' = r.self.option_groups
    /\ UNCHANGED <<user_input, exec_status, filter_vars, sort_vars>>

ConstructUnitSearchAllCommand ==
    /\ ctor_status = "none"
    /\ \E a \in PositionalArgs, k \in KeywordArgs :
        LET r == UnitSearchAllCommand_init(a, k)
        IN  /\ cls' = "UnitSearchAllCommand"
            /\ call' = [args |-> a, kwargs |-> k]
            /\ ctor_status' = r.status
            /\ options' = r.self.options
            /\ option_groups' = r.self.option_groups
    /\ UNCHANGED <<user_input, exec_status, filter_vars, sort_vars>>

Execute ==
    /\ ctor_status = "ok"
    /\ exec_status = "none"
    /\ \E input \in UserInputs :
        /\ user_input' = input
        /\ exec_status' =
               execute([options |-> options, option_groups |-> option_groups], input)
    /\ UNCHANGED <<cls, call, ctor_status, options, option_groups,
                   filter_vars, sort_vars>>

NextCommand ==
    \/ ConstructSearchCommand
    \/ ConstructUnitSearchCommand
    \/ ConstructUnitCopyCommand
    \/ ConstructUnitSearchAllCommand
    \/ Execute

SpecCommand == InitCommand /\ [][NextCommand]_vars

(***************************************************************************)
(* Properties.                                                             *)
(***************************************************************************)
HasChar(s, c) == \E i \in 1..Len(s) : s[i] = c

\* the longest prefix of s that holds no c
Before(s, c) ==
    LET n == CHOOSE k \in 0..Len(s) :
                 /\ \A j \in 1..k : s[j] # c
                 /\ (k < Len(s) => s[k+1] = c)
    IN  SubSeq(s, 1, n)

\* what follows the first c of s (nothing when s holds no c)
After(s, c) == SubSeq(s, Len(Before(s, c)) + 2, Len(s))

\* the text between the first and the second comma of a sort token
SecondComponent(tok) == Before(After(tok, COMMA), COMMA)

\* a sort token with a comma and something between it and the next comma
DirectionGiven(tok) == HasChar(tok, COMMA) /\ SecondComponent(tok) # <<>>

\* a sort token with a field, a comma and nothing between it and the next
DirectionEmpty(tok) ==
    /\ Before(tok, COMMA) # <<>>
    /\ HasChar(tok, COMMA)
    /\ SecondComponent(tok) = <<>>

\* a sort token cut just before its second comma
Truncated(tok) ==
    IF HasChar(After(tok, COMMA), COMMA)
    THEN Before(tok, COMMA) \o <<COMMA>> \o SecondComponent(tok)
    ELSE tok

\* C1: when every raw string holds an '=', _parse_key_value returns as many
\* pairs as strings, in order; the i-th field holds no '=', and field, '='
\* and value put together are the i-th string (the split is at the first '=').
C1_SplitAtFirstEq ==
    (kv_status # "none" /\ \A i \in 1..Len(kv_args) : HasChar(kv_args[i], EQ)) =>
        /\ kv_status = "ok"
        /\ Len(kv_ret) = Len(kv_args)
        /\ \A i \in 1..Len(kv_args) :
            /\ Len(kv_ret[i]) = 2
            /\ ~HasChar(kv_ret[i][1], EQ)
            /\ kv_ret[i][1] \o <<EQ>> \o kv_ret[i][2] = kv_args[i]

C1_Witness ==
    /\ kv_status = "ok"
    /\ Len(kv_args) = 2
    /\ kv_ret[1] # kv_ret[2]
    /\ HasChar(kv_ret[1][2], EQ)
    /\ kv_ret[1][1] # <<>>

\* C2: _parse_key_value fails with ValueError exactly when some raw string,
\* at any position, holds no '='; when it fails it returns no list.
C2_FailsIffSomeTermWithoutEq ==
    kv_status # "none" =>
        /\ kv_status = "ValueError" <=>
               \E i \in 1..Len(kv_args) : ~HasChar(kv_args[i], EQ)
        /\ kv_status = "ValueError" => kv_ret = <<>>
        /\ kv_status = "ok" => Len(kv_ret) = Len(kv_args)

C2_Witness ==
    /\ kv_status = "ValueError"
    /\ Len(kv_args) = 3
    /\ HasChar(kv_args[1], EQ)
    /\ HasChar(kv_args[2], EQ)
    /\ ~HasChar(kv_args[3], EQ)

\* C3: for a list of sort tokens that passed validation, _parse_sort returns
\* one pair per token in the order of the tokens; the field is the lower-cased
\* text before the first comma, the direction is 'ascending' for a token
\* without a comma and otherwise comes from the lower-cased token.
C3_ParseSortInOrder ==
    (valid_status = "ok" /\ parse_status = "ok") =>
        /\ Len(sort_ret) = Len(sort_args)
        /\ \A i \in 1..Len(sort_args) :
            /\ sort_ret[i][1] = lower(Before(sort_args[i], COMMA))
            /\ ~HasChar(sort_args[i], COMMA) => sort_ret[i][2] = ascending
            /\ DirectionGiven(sort_args[i]) =>
                   sort_ret[i][2] = lower(SecondComponent(sort_args[i]))

C3_Witness ==
    /\ valid_status = "ok"
    /\ parse_status = "ok"
    /\ sort_args = << <<"N","a">>,
                      <<"a","s","c","e","n","d","i","n","g",",",
                        "D","e","s","c","e","n","d","i","n","g">> >>
    /\ sort_ret = << << <<"n","a">>, ascending >>, <<ascending, descending>> >>

\* C4: _validate_sort fails with ValueError exactly when some token has an
\* empty field (nothing before its first comma) or gives a direction that,
\* lower-cased, is neither 'ascending' nor 'descending'.
C4_ValidateSortRejects ==
    valid_status # "none" =>
        (valid_status = "ValueError" <=>
            \E i \in 1..Len(sort_args) :
                \/ Before(sort_args[i], COMMA) = <<>>
                \/ /\ DirectionGiven(sort_args[i])
                   /\ lower(SecondComponent(sort_args[i])) \notin {ascending, descending})

C4_Witness ==
    /\ valid_status = "ValueError"
    /\ Len(sort_args) = 2
    /\ Before(sort_args[1], COMMA) # <<>>
    /\ lower(SecondComponent(sort_args[1])) = descending
    /\ sort_args[2] = <<>>

\* C5: on a list that _validate_sort accepted, _parse_sort does not raise
\* CommandUsage and returns only the directions 'ascending' and 'descending';
\* CommandUsage is raised only on a list that _validate_sort rejects.
C5_ValidatedNeverUsageFault ==
    /\ (valid_status = "ok" /\ parse_status # "none") => parse_status = "ok"
    /\ (parse_status = "CommandUsage" /\ valid_status # "none") =>
           valid_status = "ValueError"
    /\ parse_status = "ok" =>
           \A i \in 1..Len(sort_ret) : sort_ret[i][2] \in {ascending, descending}

C5_Witness ==
    /\ valid_status = "ok"
    /\ parse_status = "ok"
    /\ Len(sort_ret) = 2
    /\ sort_ret[1][2] = descending
    /\ sort_ret[2][2] = ascending

\* C9: validation and parsing treat a sort token with more than one comma as
\* they treat the token cut just before its second comma: same verdict, same
\* pair, nothing of the further components in the output.
C9_OnlyFirstTwoComponents ==
    LET cut == [i \in 1..Len(sort_args) |-> Truncated(sort_args[i])]
    IN  /\ valid_status # "none" => valid_status = validate_sort(cut)
        /\ parse_status # "none" =>
               /\ parse_status = parse_sort(cut).status
               /\ sort_ret = parse_sort(cut).ret

C9_Witness ==
    /\ valid_status = "ok"
    /\ parse_status = "ok"
    /\ Len(sort_args) = 2
    /\ HasChar(After(sort_args[1], COMMA), COMMA)
    /\ After(After(sort_args[1], COMMA), COMMA) # <<>>
    /\ sort_ret[1] = << <<"n","a">>, descending >>

\* C10: a sort token with a field and an empty second component passes
\* validation and parses to (field, 'ascending'), as the token without any
\* direction does.
C10_EmptyDirectionDefaults ==
    LET bare == [i \in 1..Len(sort_args) |->
                    IF DirectionEmpty(sort_args[i])
                    THEN Before(sort_args[i], COMMA) ELSE sort_args[i]]
        all == \A i \in 1..Len(sort_args) : DirectionEmpty(sort_args[i])
    IN  /\ valid_status # "none" =>
               /\ valid_status = validate_sort(bare)
               /\ all => valid_status = "ok"
        /\ parse_status # "none" =>
               /\ parse_status = parse_sort(bare).status
               /\ all => parse_status = "ok"
        /\ parse_status = "ok" =>
               \A i \in 1..Len(sort_args) :
                   DirectionEmpty(sort_args[i]) =>
                       sort_ret[i] = <<lower(Before(sort_args[i], COMMA)), ascending>>

C10_Witness ==
    /\ valid_status = "ok"
    /\ parse_status = "ok"
    /\ Len(sort_args) = 2
    /\ sort_args[1] = <<"N","a",",",",","D","e","s","c","e","n","d","i","n","g">>
    /\ sort_ret[1] = << <<"n","a">>, ascending >>

\* the names of the options of the command, those of its groups included
Names == option_names([options |-> options, option_groups |-> option_groups])

Has(name, required) ==
    \E i \in 1..Len(options) :
        options[i].name = name /\ options[i].required = required

CriteriaNames == {"--limit", "--skip", "--sort", "--fields"}

\* C6: a constructed UnitCopyCommand has the required options --from-repo-id
\* and --to-repo-id and has none of --repo-id, --limit, --skip, --sort,
\* --fields, whatever the caller gave for criteria.
C6_CopyOptionSet ==
    (cls = "UnitCopyCommand" /\ ctor_status = "ok") =>
        /\ Has("--from-repo-id", TRUE)
        /\ Has("--to-repo-id", TRUE)
        /\ Names \cap ({"--repo-id"} \cup CriteriaNames) = {}

C6_Witness ==
    /\ cls = "UnitCopyCommand"
    /\ ctor_status = "ok"
    /\ "criteria" \in DOMAIN call.kwargs
    /\ call.kwargs["criteria"]
    /\ Len(options) > 2

\* C7: a UnitSearchAllCommand constructed with criteria left at its default
\* has neither --filters nor any of the nine filter options, has neither
\* --sort nor --fields, and has --limit and --skip.
C7_SearchAllOptionSet ==
    (/\ cls = "UnitSearchAllCommand"
     /\ ctor_status = "ok"
     /\ "criteria" \notin DOMAIN call.kwargs) =>
        /\ Names \cap ({"--filters", "--sort", "--fields"} \cup
                       {FilterOperatorNames[i] : i \in 1..Len(FilterOperatorNames)}) = {}
        /\ option_groups = <<>>
        /\ {"--limit", "--skip"} \subseteq Names

C7_Witness ==
    /\ cls = "UnitSearchAllCommand"
    /\ ctor_status = "ok"
    /\ call.args = <<>>
    /\ DOMAIN call.kwargs = {}
    /\ "--limit" \in Names

\* C8: a constructed UnitSearchCommand has the options of the base command
\* followed by a required --repo-id and by --after and --before, both optional
\* and single-valued; an invocation that gives --repo-id is accepted whatever
\* it gives for --after and --before: none, one of them, or after > before.
C8_UnitSearchTimeBounds ==
    (cls = "UnitSearchCommand" /\ ctor_status = "ok") =>
        LET base == SearchCommand_init(call.args, call.kwargs).self
            n == Len(base.options)
        IN  /\ option_groups = base.option_groups
            /\ Len(options) = n + 3
            /\ SubSeq(options, 1, n) = base.options
            /\ options[n+1].name = "--repo-id" /\ options[n+1].required
            /\ \A i \in {n+2, n+3} :
                   ~options[i].required /\ ~options[i].allow_multiple
            /\ options[n+2].name = "--after"
            /\ options[n+3].name = "--before"
            /\ (/\ exec_status # "none"
                /\ user_input["--repo-id"] # 0
                /\ user_input["--from-repo-id"] = 0
                /\ user_input["--to-repo-id"] = 0) => exec_status = "ok"

C8_Witness ==
    /\ cls = "UnitSearchCommand"
    /\ exec_status = "ok"
    /\ user_input["--after"] = 2
    /\ user_input["--before"] = 1

====
